---- MODULE Spec2Model ----
(***************************************************************************)
(* Model of src/node/services/files.js (the watch registry, the change     *)
(* event translation and the directory listing) and of the file-viewer     *)
(* actions that call it.                                                   *)
(*                                                                         *)
(* JavaScript strings are sequences of one-character strings, so that the  *)
(* prefix tests and substitutions of the code are computed, not assumed.   *)
(***************************************************************************)
EXTENDS Integers, Sequences, FiniteSets, TLC

(***************************************************************************)
(* Strings and paths                                                       *)
(***************************************************************************)

\* os.homedir(), constant for the life of the process
homedir == <<"/", "h">>

\* the two home placeholder tokens of resolveHomeDirectory
Tilde == <<"~">>
HomeVar == <<"%", "H", "O", "M", "E", "%">>

\* the value of a string property that is not set
NoStr == <<"<undefined>">>

\* _.startsWith(str, prefix)
startsWith(str, prefix) ==
    /\ Len(str) >= Len(prefix)
    /\ SubSeq(str, 1, Len(prefix)) = prefix

\* str.replace(/^token/, by): the anchored pattern matches at most once, at index 0
replaceAtStart(str, token, by) ==
    IF startsWith(str, token)
    THEN by \o SubSeq(str, Len(token) + 1, Len(str))
    ELSE str

\* resolveHomeDirectory(str), files.js 81-89
resolveHomeDirectory(str) ==
    IF startsWith(str, Tilde) \/ startsWith(str, HomeVar)
    THEN replaceAtStart(replaceAtStart(str, Tilde, homedir), HomeVar, homedir)
    ELSE str

\* str.substr(start): the characters of str after the first start ones
substr(str, start) == SubSeq(str, start + 1, Len(str))

\* the segments of a path between its "/" separators (empty segments included)
RECURSIVE splitPath(_)
splitPath(p) ==
    IF \A i \in 1..Len(p) : p[i] # "/"
    THEN <<p>>
    ELSE LET k == CHOOSE i \in 1..Len(p) :
                      p[i] = "/" /\ \A j \in 1..(i - 1) : p[j] # "/"
         IN  <<SubSeq(p, 1, k - 1)>> \o splitPath(SubSeq(p, k + 1, Len(p)))

\* segments joined with "/"
RECURSIVE joinSegments(_)
joinSegments(segs) ==
    IF segs = <<>> THEN <<>>
    ELSE IF Len(segs) = 1 THEN segs[1]
    ELSE segs[1] \o <<"/">> \o joinSegments(Tail(segs))

\* normalizeString of path.posix: drops empty and "." segments, resolves ".."
RECURSIVE normalizeSegments(_, _, _)
normalizeSegments(segs, acc, allowAboveRoot) ==
    IF segs = <<>> THEN acc
    ELSE LET s == Head(segs)
             rest == Tail(segs)
         IN  IF s = <<>> \/ s = <<".">>
             THEN normalizeSegments(rest, acc, allowAboveRoot)
             ELSE IF s = <<".", ".">>
             THEN IF acc # <<>> /\ acc[Len(acc)] # <<".", ".">>
                  THEN normalizeSegments(rest, SubSeq(acc, 1, Len(acc) - 1), allowAboveRoot)
                  ELSE IF allowAboveRoot
                  THEN normalizeSegments(rest, Append(acc, s), allowAboveRoot)
                  ELSE normalizeSegments(rest, acc, allowAboveRoot)
             ELSE normalizeSegments(rest, Append(acc, s), allowAboveRoot)

\* path.posix.normalize(p)
pathNormalize(p) ==
    IF p = <<>> THEN <<".">>
    ELSE LET isAbsolute == p[1] = "/"
             trailing == p[Len(p)] = "/"
             body == joinSegments(normalizeSegments(splitPath(p), <<>>, ~isAbsolute))
             body1 == IF body = <<>> /\ ~isAbsolute THEN <<".">> ELSE body
             body2 == IF body1 # <<>> /\ trailing THEN body1 \o <<"/">> ELSE body1
         IN  IF isAbsolute THEN <<"/">> \o body2 ELSE body2

\* path.join(a, b): the non-empty arguments joined with "/" and normalized
pathJoin(a, b) ==
    LET joined == IF a = <<>> THEN b
                  ELSE IF b = <<>> THEN a
                  ELSE a \o <<"/">> \o b
    IN  IF joined = <<>> THEN <<".">> ELSE pathNormalize(joined)

\* a shortening that drops the home directory and puts no placeholder in its place
getWithHomeDirectoryShortName_noTilde(str) ==
    IF startsWith(str, homedir) THEN substr(str, Len(homedir)) ELSE str

\* getWithHomeDirectoryShortName(str), files.js 96-104
getWithHomeDirectoryShortName(str) ==
    IF startsWith(str, homedir)
    THEN pathJoin(Tilde, substr(str, Len(homedir)))
    ELSE str

\* the index of the last occurrence of c in s, 0 when there is none
lastIndexOf(s, c) ==
    IF \E i \in 1..Len(s) : s[i] = c
    THEN CHOOSE i \in 1..Len(s) : s[i] = c /\ \A j \in (i + 1)..Len(s) : s[j] # c
    ELSE 0

\* p without its trailing "/" characters
RECURSIVE stripTrailingSlashes(_)
stripTrailingSlashes(p) ==
    IF p # <<>> /\ p[Len(p)] = "/"
    THEN stripTrailingSlashes(SubSeq(p, 1, Len(p) - 1))
    ELSE p

\* path.posix.parse(p): root, dir, base, ext, name
posixParse(p) ==
    IF p = <<>>
    THEN [root |-> <<>>, dir |-> <<>>, base |-> <<>>, ext |-> <<>>, name |-> <<>>]
    ELSE LET isAbsolute == p[1] = "/"
             root == IF isAbsolute THEN <<"/">> ELSE <<>>
             \* the scan never looks at the leading "/" of an absolute path
             from == IF isAbsolute THEN 2 ELSE 1
             scanned == stripTrailingSlashes(SubSeq(p, from, Len(p)))
             cut == lastIndexOf(scanned, "/")
             base == SubSeq(scanned, cut + 1, Len(scanned))
             startPart == IF cut = 0 THEN 0 ELSE (from - 1) + cut
             dir == IF startPart > 0 THEN SubSeq(p, 1, startPart - 1)
                    ELSE IF isAbsolute THEN <<"/">> ELSE <<>>
             dot == lastIndexOf(base, ".")
             noExt == dot = 0 \/ dot = 1 \/ base = <<".", ".">>
         IN  [root |-> root,
              dir  |-> dir,
              base |-> base,
              ext  |-> IF noExt THEN <<>> ELSE SubSeq(base, dot, Len(base)),
              name |-> IF noExt THEN base ELSE SubSeq(base, 1, dot - 1)]

(***************************************************************************)
(* Stat objects and the change event translation                           *)
(***************************************************************************)

\* What a property of a raw stat-like object can hold: nothing, a boolean, or a
\* method returning a boolean or nothing (fs.Stats exposes methods).
PropVals == {"undefined", "true", "false", "fnTrue", "fnFalse", "fnUndef"}

\* the JavaScript value undefined, in the shape of the objects below
Undefined ==
    [defined |-> FALSE,
     isDirectory |-> "undefined", isFile |-> "undefined", isSymbolicLink |-> "undefined",
     path |-> NoStr, root |-> NoStr, dir |-> NoStr, base |-> NoStr,
     ext |-> NoStr, name |-> NoStr]

\* an object with the three stat properties set as given and nothing else
StatObject(d, f, l) ==
    [Undefined EXCEPT !.defined = TRUE,
                      !.isDirectory = d, !.isFile = f, !.isSymbolicLink = l]

\* _.result(object, key, defaultValue) for a property holding v
result(v, defaultValue) ==
    CASE v = "undefined" -> defaultValue
      [] v = "fnTrue"    -> "true"
      [] v = "fnFalse"   -> "false"
      [] v = "fnUndef"   -> "undefined"
      [] OTHER           -> v

\* normalizeStats(stats), files.js 197-205: the object itself, its three
\* properties overwritten by their results
normalizeStats(stats) ==
    IF stats.defined
    THEN [stats EXCEPT !.isDirectory = result(@, "false"),
                       !.isFile = result(@, "false"),
                       !.isSymbolicLink = result(@, "false")]
    ELSE stats

\* _.assign(object, path.posix.parse(fullPath))
assignParsed(object, fullPath) ==
    LET parsed == posixParse(fullPath)
    IN  [object EXCEPT !.root = parsed.root, !.dir = parsed.dir, !.base = parsed.base,
                       !.ext = parsed.ext, !.name = parsed.name]

\* an event that was never built
NoEvent ==
    [type |-> "none", eventType |-> "none", path |-> NoStr, details |-> Undefined]

\* getFileSystemChangeToken(eventType, filePath, details), files.js 207-226.
\* event: the value returned (details = Undefined: the event has no details field);
\* logged: whether the diagnostic of line 222 was written;
\* stats: the object passed as details, as the call leaves it.
getFileSystemChangeToken(eventType, filePath, details) ==
    LET d1 == normalizeStats(details)
        attach == d1.defined /\ d1.isDirectory # "undefined"
        d2 == assignParsed([normalizeStats(d1) EXCEPT !.path = filePath], filePath)
    IN  [event  |-> [type |-> "FILE_SYSTEM_CHANGED",
                     eventType |-> eventType,
                     path |-> filePath,
                     details |-> IF attach THEN d2 ELSE Undefined],
         logged |-> ~attach,
         stats  |-> IF attach THEN d2 ELSE d1]

\* a translation that did not run
NoToken == [event |-> NoEvent, logged |-> FALSE, stats |-> Undefined]

(***************************************************************************)
(* The watch registry                                                      *)
(***************************************************************************)

\* requester identities (non-empty strings) and the absent identity of stop()
Ids == {"a", "b"}
NoId == ""

\* the bound of the model: the watchers created in one run
MaxSessions == 2

\* the events the native watch layer reports
FileEvents == {"add", "change", "unlink", "addDir", "unlinkDir"}
NativeEvents == FileEvents \cup {"error", "ready"}

\* the listeners startWatching attaches, files.js 254-268
AttachedListeners == NativeEvents \cup {"all"}

\* The listener names the watcher fires for one native event: the event's own
\* name, and "all" for every event other than ready and error.
emittedNames(kind) ==
    IF kind \in FileEvents THEN {kind, "all"} ELSE {kind}

\* a fileTarget argument: one string, or an array of strings
StringTarget(p) == [isArray |-> FALSE, items |-> <<p>>]
ArrayTarget(ps) == [isArray |-> TRUE, items |-> ps]
NoTarget == [isArray |-> FALSE, items |-> <<>>]

\* the resolution of a fileTarget, files.js 235-239 and 294-298
resolveTarget(fileTarget) ==
    [fileTarget EXCEPT !.items = [i \in 1..Len(fileTarget.items) |->
                                      resolveHomeDirectory(fileTarget.items[i])]]

\* the paths of a (resolved) fileTarget
targetPaths(fileTarget) == {fileTarget.items[i] : i \in 1..Len(fileTarget.items)}

\* the fileTarget arguments of the model
Targets ==
    {StringTarget(<<"~", "/", "d">>),
     ArrayTarget(<<<<"/", "w">>, <<"%", "H", "O", "M", "E", "%", "/", "d">>>>)}

\* the path and the raw details the native layer reports with an event
EventPaths == {<<"/", "h", "/", "d", "/", "f", ".", "t">>}
RawDetails ==
    {Undefined,
     StatObject("fnFalse", "fnTrue", "fnFalse"),
     StatObject("undefined", "undefined", "undefined")}

\* the raw details that can come with an event: only add, addDir and change
\* carry any
rawDetailsOf(kind) ==
    IF kind \in {"add", "addDir", "change"} THEN RawDetails ELSE {Undefined}

VARIABLES
    fileWatchers,   \* files.js 10: requesterId -> watcher (an index of watchers)
    watchers,       \* every watcher chokidar.watch has created, in creation order
    pc,             \* the position of the running startWatching call, or "idle"
    last,           \* the call or callback that ran last, and what it did
    listPc,         \* readDirectory: "idle", "mapping", "resolved" or "rejected"
    listReaddir,    \* readDirectory: how fs.readdir answered: "none", "ok" or "failed"
    listDir,        \* readDirectory: dirPath after line 44
    listNames,      \* readDirectory: the names fs.readdir yielded, in its order
    listEntries,    \* readDirectory: the promise of each name's map callback
    listResult,     \* readDirectory: the value the returned promise resolved with
    homeIn,         \* the path last given to resolveHomeDirectory
    homeResolved,   \* what resolveHomeDirectory returned for it
    homeShort,      \* what getWithHomeDirectoryShortName returned for that, if called
    viewReqs,       \* file viewer: the view requests issued, in order of issue
    viewLog         \* file viewer: what the requests dispatched, started and logged, in order

registryVars == <<fileWatchers, watchers, pc, last>>
listVars == <<listPc, listReaddir, listDir, listNames, listEntries, listResult>>
pathVars == <<homeIn, homeResolved, homeShort>>
vars == <<fileWatchers, watchers, pc, last,
          listPc, listReaddir, listDir, listNames, listEntries, listResult,
          homeIn, homeResolved, homeShort, viewReqs, viewLog>>
viewVars == <<viewReqs, viewLog>>

\* the record of a call, for last
Call(op, id, target, session, threw) ==
    [op |-> op, id |-> id, target |-> target, session |-> session, threw |-> threw,
     kind |-> "none", path |-> NoStr, raw |-> Undefined, token |-> NoToken,
     sent |-> <<>>]

\* the record of a native callback, for last: sent holds the messages the
\* callback passed to ipcEmitter.send, in order
Callback(session, kind, path, raw, token, sent) ==
    [op |-> "native", id |-> NoId, target |-> NoTarget, session |-> session,
     threw |-> FALSE, kind |-> kind, path |-> path, raw |-> raw, token |-> token,
     sent |-> sent]

\* the empty mapping
NoWatchers == [i \in {} |-> 0]

\* chokidar.watch(fileTarget, options) with the listeners of 254-268 attached.
\* requesterId and stopped are history: who the watcher was created for, and
\* whether a stopWatching call has addressed it.
newWatcher(requesterId, fileTarget) ==
    [requesterId |-> requesterId,
     closed |-> FALSE,
     stopped |-> FALSE,
     listeners |-> AttachedListeners,
     targets |-> targetPaths(fileTarget)]

\* watcher.close(): the native handle is released and every listener removed
closeWatcher(ws, w) ==
    [ws EXCEPT ![w].closed = TRUE, ![w].listeners = {}]

\* the watchers of the set marked as addressed by a stopWatching call
markStopped(ws, set) ==
    [w \in 1..Len(ws) |-> IF w \in set THEN [ws[w] EXCEPT !.stopped = TRUE] ELSE ws[w]]

\* _.each(fileWatchers, watcher => watcher.close())
RECURSIVE closeAll(_, _)
closeAll(ws, set) ==
    IF set = {} THEN ws
    ELSE LET w == CHOOSE v \in set : TRUE
         IN  closeAll(closeWatcher(ws, w), set \ {w})

\* delete fileWatchers[requesterId]
deleteKey(fw, requesterId) ==
    [k \in (DOMAIN fw) \ {requesterId} |-> fw[k]]

\* fileWatchers[requesterId] = watcher
setKey(fw, requesterId, w) ==
    [k \in (DOMAIN fw) \cup {requesterId} |-> IF k = requesterId THEN w ELSE fw[k]]

\* stopWatching that forgets the registration without closing its watcher
stopWatching_noClose(fw, ws, requesterId) ==
    IF requesterId # NoId
    THEN IF requesterId \in DOMAIN fw
         THEN [fw |-> deleteKey(fw, requesterId),
               ws |-> markStopped(ws, {fw[requesterId]}),
               threw |-> FALSE]
         ELSE [fw |-> fw, ws |-> ws, threw |-> TRUE]
    ELSE [fw |-> fw,
          ws |-> markStopped(ws, {fw[k] : k \in DOMAIN fw}),
          threw |-> FALSE]

\* stopWatching that closes every watcher whatever identity it is given
stopWatching_everyone(fw, ws, requesterId) ==
    LET all == {fw[k] : k \in DOMAIN fw}
    IN  IF requesterId # NoId /\ requesterId \notin DOMAIN fw
        THEN [fw |-> fw, ws |-> ws, threw |-> TRUE]
        ELSE [fw |-> deleteKey(fw, requesterId),
              ws |-> closeAll(markStopped(ws, all), all),
              threw |-> FALSE]

\* stopWatching that takes an identity without a registration for no identity
stopWatching_lenient(fw, ws, requesterId) ==
    LET all == {fw[k] : k \in DOMAIN fw}
    IN  IF requesterId \in DOMAIN fw
        THEN [fw |-> deleteKey(fw, requesterId),
              ws |-> closeWatcher(markStopped(ws, {fw[requesterId]}), fw[requesterId]),
              threw |-> FALSE]
        ELSE [fw |-> fw,
              ws |-> closeAll(markStopped(ws, all), all),
              threw |-> FALSE]

\* stopWatching(requesterId), files.js 280-287, on the mapping fw and the
\* watchers ws. threw: the call ended in the TypeError of reading close of undefined.
stopWatching(fw, ws, requesterId) ==
    IF requesterId # NoId
    THEN IF requesterId \in DOMAIN fw
         THEN [fw |-> deleteKey(fw, requesterId),
               ws |-> closeWatcher(markStopped(ws, {fw[requesterId]}), fw[requesterId]),
               threw |-> FALSE]
         ELSE [fw |-> fw, ws |-> ws, threw |-> TRUE]
    ELSE LET all == {fw[k] : k \in DOMAIN fw}
         IN  [fw |-> fw,
              ws |-> closeAll(markStopped(ws, all), all),
              threw |-> FALSE]

\* startWatching, files.js 235-268: the target is resolved, the watcher created
\* and its listeners attached
StartCreate(requesterId, fileTarget) ==
    /\ pc = "idle"
    /\ Len(watchers) < MaxSessions
    /\ watchers' = Append(watchers, newWatcher(requesterId, resolveTarget(fileTarget)))
    /\ pc' = "replace"
    /\ last' = Call("start", requesterId, fileTarget, Len(watchers) + 1, FALSE)
    /\ UNCHANGED <<fileWatchers, listVars, pathVars, viewVars>>

\* startWatching that registers the new watcher over the old one without stopping it
startReplace_overwrite(fw, ws, requesterId, w) ==
    [fw |-> setKey(fw, requesterId, w), ws |-> ws]

\* the mapping and the watchers after lines 270-274 of startWatching for the watcher w
startReplace(fw, ws, requesterId, w) ==
    LET stopped == IF requesterId \in DOMAIN fw
                   THEN stopWatching(fw, ws, requesterId)
                   ELSE [fw |-> fw, ws |-> ws, threw |-> FALSE]
    IN  [fw |-> setKey(stopped.fw, requesterId, w), ws |-> stopped.ws]

\* startWatching, files.js 270-274: a registered watcher of the requester is
\* stopped, and the new one registered
StartReplace ==
    /\ pc = "replace"
    /\ LET after == startReplace(fileWatchers, watchers, last.id, last.session)
       IN  /\ fileWatchers' = after.fw
           /\ watchers' = after.ws
    /\ pc' = "idle"
    /\ UNCHANGED <<last, listVars, pathVars, viewVars>>

\* stopWatching(requesterId) called from outside; requesterId may be absent
Stop(requesterId) ==
    /\ pc = "idle"
    /\ LET after == stopWatching(fileWatchers, watchers, requesterId)
       IN  /\ fileWatchers' = after.fw
           /\ watchers' = after.ws
           /\ last' = Call("stop", requesterId, NoTarget, 0, after.threw)
    /\ UNCHANGED <<pc, listVars, pathVars, viewVars>>

\* addWatching that passes the target on without resolving the home placeholder
addWatching_unresolved(fw, ws, requesterId, fileTarget) ==
    IF requesterId \in DOMAIN fw
    THEN [ws EXCEPT ![fw[requesterId]].targets = @ \cup targetPaths(fileTarget)]
    ELSE ws

\* the watchers after addWatching(requesterId, fileTarget), files.js 293-305
addWatching(fw, ws, requesterId, fileTarget) ==
    IF requesterId \in DOMAIN fw
    THEN [ws EXCEPT ![fw[requesterId]].targets =
                        @ \cup targetPaths(resolveTarget(fileTarget))]
    ELSE ws

Add(requesterId, fileTarget) ==
    /\ pc = "idle"
    /\ watchers' = addWatching(fileWatchers, watchers, requesterId, fileTarget)
    /\ last' = Call("add", requesterId, fileTarget,
                    IF requesterId \in DOMAIN fileWatchers
                    THEN fileWatchers[requesterId] ELSE 0, FALSE)
    /\ UNCHANGED <<fileWatchers, pc, listVars, pathVars, viewVars>>

\* dispatch(ipcEmitter, data), files.js 188-190: the messages sent
dispatch(data) ==
    <<[name |-> "dispatch", channel |-> "files", data |-> data]>>

\* the "all" listener, files.js 262-268: the messages it sends
allListener(eventType, path, details) ==
    dispatch(getFileSystemChangeToken(eventType, path, details).event)

\* The native layer of watcher w reports an event: the listeners still attached
\* run. The "all" listener translates and dispatches; the others only log.
NativeEvent(w, kind, path, raw) ==
    /\ pc = "idle"
    /\ w \in 1..Len(watchers)
    /\ LET heard == emittedNames(kind) \cap watchers[w].listeners
       IN  IF "all" \in heard
           THEN last' = Callback(w, kind, path, raw,
                                 getFileSystemChangeToken(kind, path, raw),
                                 allListener(kind, path, raw))
           ELSE last' = Callback(w, kind, path, raw, NoToken, <<>>)
    /\ UNCHANGED <<fileWatchers, watchers, pc, listVars, pathVars, viewVars>>

(***************************************************************************)
(* The directory listing                                                   *)
(***************************************************************************)

\* the bound of the model: the entries of a listed directory
MaxEntries == 3

\* the names a directory enumeration yields, in enumeration order
NamePool == <<<<"a">>, <<"b", ".", "t">>, <<"c">>, <<"e">>>>

\* the dirPath arguments of the model
DirPaths == {<<"~", "/", "d">>, <<"/", "w", "/">>}

\* what fs.lstat and fs.stat yield when they succeed: an fs.Stats, whose
\* isDirectory, isFile and isSymbolicLink are methods. fs.stat follows links.
DirStats == StatObject("fnTrue", "fnFalse", "fnFalse")
FileStats == StatObject("fnFalse", "fnTrue", "fnFalse")
LinkStats == StatObject("fnFalse", "fnFalse", "fnTrue")
LstatResults == {DirStats, LinkStats}
StatResults == {FileStats}

\* path.join(dirPath, filename), files.js 47
fullPathOf(dirPath, filename) == pathJoin(dirPath, filename)

\* the value of one name's map callback when getStats succeeded, files.js 49-53
listedEntry(dirPath, filename, stats) ==
    LET fullPath == fullPathOf(dirPath, filename)
    IN  assignParsed([normalizeStats(stats) EXCEPT !.path = fullPath], fullPath)

\* a listing that is returned as mapped, the undefined placeholders left in
compact_nothing(list) == list

\* _.compact(list): the list without its falsy values
RECURSIVE compact(_)
compact(list) ==
    IF list = <<>> THEN <<>>
    ELSE IF Head(list).defined
    THEN <<Head(list)>> \o compact(Tail(list))
    ELSE compact(Tail(list))

\* a map callback that has not settled: at is "lstat" or "stat"; one that has:
\* at is "fulfilled" (value: the entry) or "caught" (value: undefined, from line 56).
\* calls: the stat variants issued for the name, in order; warnings: the
\* warnings logged for it, in order.
pendingEntry ==
    [at |-> "lstat", value |-> Undefined, calls |-> <<"lstat">>, warnings |-> <<>>]

\* readDirectory, files.js 41-46: the path is resolved and fs.readdir yields the
\* first n names of the pool; the map callback of each name starts (lstat issued)
ReadDirectory(dirPath, n) ==
    /\ listPc = "idle"
    /\ n <= Len(NamePool)
    /\ listDir' = resolveHomeDirectory(dirPath)
    /\ listNames' = SubSeq(NamePool, 1, n)
    /\ listEntries' = [i \in 1..n |-> pendingEntry]
    /\ listReaddir' = "ok"
    /\ listPc' = "mapping"
    /\ UNCHANGED <<listResult, registryVars, pathVars, viewVars>>

\* a failed enumeration answered with an empty listing
ReadDirectoryFails_emptySuccess(dirPath) ==
    /\ listPc = "idle"
    /\ listDir' = resolveHomeDirectory(dirPath)
    /\ listReaddir' = "failed"
    /\ listPc' = "resolved"
    /\ UNCHANGED <<listNames, listEntries, listResult, registryVars, pathVars, viewVars>>

\* readDirectory, files.js 46: fs.readdir fails, the returned promise is rejected
ReadDirectoryFails(dirPath) ==
    /\ listPc = "idle"
    /\ listDir' = resolveHomeDirectory(dirPath)
    /\ listReaddir' = "failed"
    /\ listPc' = "rejected"
    /\ UNCHANGED <<listNames, listEntries, listResult, registryVars, pathVars, viewVars>>

\* getStats without the fallback: a failed lstat fails the snapshot
afterLstat_noFallback(entry, dirPath, filename, ok, stats) ==
    IF ok
    THEN [entry EXCEPT !.at = "fulfilled", !.value = listedEntry(dirPath, filename, stats)]
    ELSE [entry EXCEPT !.at = "caught", !.value = Undefined,
                       !.warnings = @ \o <<"lstat failed", "getStats failed">>]

\* the promise of a map callback after fs.lstat answered, files.js 110-117 and
\* 49-53: on failure the warning of line 112 is logged and fs.stat issued
afterLstat(entry, dirPath, filename, ok, stats) ==
    IF ok
    THEN [entry EXCEPT !.at = "fulfilled", !.value = listedEntry(dirPath, filename, stats)]
    ELSE [entry EXCEPT !.at = "stat", !.calls = Append(@, "stat"),
                       !.warnings = Append(@, "lstat failed")]

\* a dropped entry that is not logged
afterStat_silent(entry, dirPath, filename, ok, stats) ==
    IF ok
    THEN [entry EXCEPT !.at = "fulfilled", !.value = listedEntry(dirPath, filename, stats)]
    ELSE [entry EXCEPT !.at = "caught", !.value = Undefined]

\* the promise of a map callback after fs.stat answered, files.js 115-117 and
\* 49-57: on failure the warning of line 55 is logged and undefined returned
afterStat(entry, dirPath, filename, ok, stats) ==
    IF ok
    THEN [entry EXCEPT !.at = "fulfilled", !.value = listedEntry(dirPath, filename, stats)]
    ELSE [entry EXCEPT !.at = "caught", !.value = Undefined,
                       !.warnings = Append(@, "getStats failed")]

\* fs.lstat of entry i answers
Lstat(i, ok, stats) ==
    /\ listPc = "mapping"
    /\ i \in 1..Len(listNames)
    /\ listEntries[i].at = "lstat"
    /\ listEntries' = [listEntries EXCEPT
                          ![i] = afterLstat(@, listDir, listNames[i], ok, stats)]
    /\ UNCHANGED <<listPc, listReaddir, listDir, listNames, listResult, registryVars, pathVars, viewVars>>

\* fs.stat of entry i answers
Stat(i, ok, stats) ==
    /\ listPc = "mapping"
    /\ i \in 1..Len(listNames)
    /\ listEntries[i].at = "stat"
    /\ listEntries' = [listEntries EXCEPT
                          ![i] = afterStat(@, listDir, listNames[i], ok, stats)]
    /\ UNCHANGED <<listPc, listReaddir, listDir, listNames, listResult, registryVars, pathVars, viewVars>>

\* the values of the map callbacks, in the order of the names
mappedValues(entries) == [i \in 1..Len(entries) |-> entries[i].value]

\* readDirectory, files.js 58: every map callback has settled; the list is compacted
ListResolve ==
    /\ listPc = "mapping"
    /\ \A i \in 1..Len(listNames) : listEntries[i].at \in {"fulfilled", "caught"}
    /\ listResult' = compact(mappedValues(listEntries))
    /\ listPc' = "resolved"
    /\ UNCHANGED <<listReaddir, listDir, listNames, listEntries, registryVars, pathVars, viewVars>>

(***************************************************************************)
(* The home directory forms of a path                                      *)
(***************************************************************************)

\* the bound of the model: the characters of a path after its first token
MaxPathLen == 3

\* the paths of the model: a placeholder, the home directory or nothing,
\* followed by up to MaxPathLen characters
PathStarts == {Tilde, HomeVar, homedir, <<>>}
PathChars == {"/", ".", "d"}
PathTails == UNION {[1..k -> PathChars] : k \in 0..MaxPathLen}
HomePaths == {start \o tail : start \in PathStarts, tail \in PathTails}

\* resolveHomeDirectory(str) is called
ResolveHome(str) ==
    /\ homeIn' = str
    /\ homeResolved' = resolveHomeDirectory(str)
    /\ homeShort' = NoStr
    /\ UNCHANGED <<registryVars, listVars, viewVars>>

\* getWithHomeDirectoryShortName is called with the path last resolved
ShortenHome ==
    /\ homeResolved # NoStr
    /\ homeShort = NoStr
    /\ homeShort' = getWithHomeDirectoryShortName(homeResolved)
    /\ UNCHANGED <<registryVars, listVars, viewVars, homeIn, homeResolved>>

(***************************************************************************)
(* The file viewer's view requests                                         *)
(***************************************************************************)

\* the bound of the model: the view requests issued in one run
MaxRequests == 2

\* const requesterId = 'file-viewer', part_000 line 7
requesterId == "file-viewer"

\* the paths a view is requested for; the empty string is a falsy filePath
ViewPaths == {<<"~", "/", "d">>, <<"/", "w">>}
ViewArgs == ViewPaths \cup {<<>>}

\* A view request as getViewedFiles and setViewedPath leave it when they return:
\* the listing and the timer of bluebird.all are both under way. first: which
\* of the two completed first; at: how far the promise chain has run.
viewRequest(kind, filePath) ==
    [kind |-> kind, filePath |-> filePath,
     listing |-> "pending", timer |-> "running", first |-> "none", at |-> "waiting"]

\* an entry of viewLog
dispatched(r, filePath, withResult) ==
    [type |-> "SET_VIEWED_PATH", req |-> r, targetPath |-> filePath, result |-> withResult]
watchStarted(r, target) ==
    [type |-> "startWatching", req |-> r, targetPath |-> target, result |-> FALSE]
errorLogged(r, filePath) ==
    [type |-> "console.error", req |-> r, targetPath |-> filePath, result |-> FALSE]

\* if (!filePath) filePath = getState().fileView.path
viewedPath(filePath, statePath) == IF filePath = <<>> THEN statePath ELSE filePath

\* No promise chain is between its two taps. The first tap returns the action
\* object, so bluebird runs the second tap directly after it: no other
\* callback and no other call runs in between.
chainIdle == \A q \in 1..Len(viewReqs) : viewReqs[q].at # "dispatched"

\* getViewedFiles(filePath), part_000 44-58, up to its return; statePath is the
\* path the store holds
GetViewedFiles(filePath, statePath) ==
    /\ chainIdle
    /\ Len(viewReqs) < MaxRequests
    /\ viewReqs' = Append(viewReqs, viewRequest("get", viewedPath(filePath, statePath)))
    /\ UNCHANGED <<viewLog, registryVars, listVars, pathVars>>

\* setViewedPath(filePath), part_000 66-82, up to its return
SetViewedPath(filePath, statePath) ==
    /\ chainIdle
    /\ Len(viewReqs) < MaxRequests
    /\ viewReqs' = Append(viewReqs, viewRequest("set", viewedPath(filePath, statePath)))
    /\ viewLog' = Append(viewLog, dispatched(Len(viewReqs) + 1,
                                             viewedPath(filePath, statePath), FALSE))
    /\ UNCHANGED <<registryVars, listVars, pathVars>>

\* fileService.getFiles(filePath) of request r settles
ListingAnswers(r, ok) ==
    /\ r \in 1..Len(viewReqs)
    /\ chainIdle
    /\ viewReqs[r].listing = "pending"
    /\ viewReqs' = [viewReqs EXCEPT ![r].listing = IF ok THEN "ok" ELSE "failed",
                                    ![r].first = IF @ = "none" THEN "listing" ELSE @]
    /\ UNCHANGED <<viewLog, registryVars, listVars, pathVars>>

\* bluebird.delay(200) of request r elapses; timers of equal delay elapse in
\* the order they were set
TimerFires(r) ==
    /\ r \in 1..Len(viewReqs)
    /\ chainIdle
    /\ viewReqs[r].timer = "running"
    /\ \A q \in 1..(r - 1) : viewReqs[q].timer = "elapsed"
    /\ viewReqs' = [viewReqs EXCEPT ![r].timer = "elapsed",
                                    ![r].first = IF @ = "none" THEN "timer" ELSE @]
    /\ UNCHANGED <<viewLog, registryVars, listVars, pathVars>>

\* a join that waits for the listing alone
allResolved_listingOnly(req) == req.listing = "ok"

\* bluebird.all([getFiles, delay]) is fulfilled
allResolved(req) == req.listing = "ok" /\ req.timer = "elapsed"

\* the first tap of request r: the listing result is dispatched
ViewDispatch(r) ==
    /\ r \in 1..Len(viewReqs)
    /\ chainIdle
    /\ viewReqs[r].at = "waiting"
    /\ allResolved(viewReqs[r])
    /\ viewReqs' = [viewReqs EXCEPT ![r].at = "dispatched"]
    /\ viewLog' = Append(viewLog, dispatched(r, viewReqs[r].filePath, TRUE))
    /\ UNCHANGED <<registryVars, listVars, pathVars>>

\* the second tap of request r: startWatching(requesterId, path.join(filePath, '*'))
\* is issued, and the registry's startWatching runs for it
ViewStartWatching(r) ==
    /\ r \in 1..Len(viewReqs)
    /\ viewReqs[r].at = "dispatched"
    /\ LET target == pathJoin(viewReqs[r].filePath, <<"*">>)
           created == Append(watchers,
                             newWatcher(requesterId, resolveTarget(StringTarget(target))))
           after == startReplace(fileWatchers, created, requesterId, Len(created))
       IN  /\ viewLog' = Append(viewLog, watchStarted(r, target))
           /\ fileWatchers' = after.fw
           /\ watchers' = after.ws
    /\ viewReqs' = [viewReqs EXCEPT ![r].at = "watching"]
    /\ UNCHANGED <<pc, last, listVars, pathVars>>

\* the catch of request r: bluebird.all is rejected with the listing's error,
\* which is written to the console
ViewFail(r) ==
    /\ r \in 1..Len(viewReqs)
    /\ chainIdle
    /\ viewReqs[r].at = "waiting"
    /\ viewReqs[r].listing = "failed"
    /\ viewReqs' = [viewReqs EXCEPT ![r].at = "failed"]
    /\ viewLog' = Append(viewLog, errorLogged(r, viewReqs[r].filePath))
    /\ UNCHANGED <<registryVars, listVars, pathVars>>

Init ==
    /\ fileWatchers = NoWatchers
    /\ watchers = <<>>
    /\ pc = "idle"
    /\ last = Call("init", NoId, NoTarget, 0, FALSE)
    /\ listPc = "idle"
    /\ listReaddir = "none"
    /\ listDir = <<>>
    /\ listNames = <<>>
    /\ listEntries = <<>>
    /\ listResult = <<>>
    /\ homeIn = NoStr
    /\ homeResolved = NoStr
    /\ homeShort = NoStr
    /\ viewReqs = <<>>
    /\ viewLog = <<>>

Next ==
    \/ \E id \in Ids, t \in Targets : StartCreate(id, t)
    \/ StartReplace
    \/ \E id \in Ids \cup {NoId} : Stop(id)
    \/ \E id \in Ids, t \in Targets : Add(id, t)
    \/ \E w \in 1..MaxSessions, kind \in NativeEvents, p \in EventPaths :
           \E raw \in rawDetailsOf(kind) : NativeEvent(w, kind, p, raw)

\* the watch registry and its native callbacks
Spec == Init /\ [][Next]_vars

ListNext ==
    \/ \E d \in DirPaths, n \in 0..MaxEntries : ReadDirectory(d, n)
    \/ \E d \in DirPaths : ReadDirectoryFails(d)
    \/ \E i \in 1..MaxEntries, ok \in BOOLEAN, st \in LstatResults : Lstat(i, ok, st)
    \/ \E i \in 1..MaxEntries, ok \in BOOLEAN, st \in StatResults : Stat(i, ok, st)
    \/ ListResolve

\* one directory listing
ListSpec == Init /\ [][ListNext]_vars

PathNext ==
    \/ \E str \in HomePaths : ResolveHome(str)
    \/ ShortenHome

\* the two home directory conversions, one after the other
PathSpec == Init /\ [][PathNext]_vars

ViewNext ==
    \/ \E filePath \in ViewArgs, statePath \in ViewPaths : GetViewedFiles(filePath, statePath)
    \/ \E filePath \in ViewArgs, statePath \in ViewPaths : SetViewedPath(filePath, statePath)
    \/ \E r \in 1..MaxRequests, ok \in BOOLEAN : ListingAnswers(r, ok)
    \/ \E r \in 1..MaxRequests : TimerFires(r)
    \/ \E r \in 1..MaxRequests : ViewDispatch(r)
    \/ \E r \in 1..MaxRequests : ViewStartWatching(r)
    \/ \E r \in 1..MaxRequests : ViewFail(r)

\* the file viewer's view requests and the watch they start
ViewSpec == Init /\ [][ViewNext]_vars

(***************************************************************************)
(* Properties of the watch registry (checked under Spec)                   *)
(***************************************************************************)

\* the watchers created for a requester that are not closed
openSessions(id) ==
    {w \in 1..Len(watchers) : watchers[w].requesterId = id /\ ~watchers[w].closed}

\* C1: once a start, add or stop call has completed, every requester has at
\* most one watcher that was created for it and is not closed; after a
\* completed start(id, t) the only open watcher of id is the one that call
\* created, and it is the one registered.
C1_OneOpenSessionPerRequester ==
    pc = "idle" =>
        /\ \A id \in Ids : Cardinality(openSessions(id)) <= 1
        /\ last.op = "start" =>
               /\ openSessions(last.id) = {last.session}
               /\ last.id \in DOMAIN fileWatchers
               /\ fileWatchers[last.id] = last.session

\* C1 witness: start has completed twice for one requester; the first watcher
\* is closed and the second is the registered one
C1_Witness ==
    /\ pc = "idle"
    /\ last.op = "start"
    /\ last.session = 2
    /\ watchers[1].requesterId = last.id
    /\ watchers[1].closed
    /\ fileWatchers[last.id] = 2

\* C2: a native callback of a watcher that a returned stop(id), stop() or
\* replacing start has addressed sends no message.
C2_NoEventAfterClose ==
    (last.op = "native" /\ watchers[last.session].stopped) => last.sent = <<>>

\* C2 witness: a file event is reported for a stopped watcher whose requester
\* has been started again since
C2_Witness ==
    /\ last.op = "native"
    /\ last.kind \in FileEvents
    /\ watchers[last.session].stopped
    /\ LET id == watchers[last.session].requesterId
       IN  /\ id \in DOMAIN fileWatchers
           /\ fileWatchers[id] > last.session
           /\ ~watchers[fileWatchers[id]].closed

\* C3 (as claimed): at no step of start are an old and a new watcher of the
\* same requester both open.
C3_ReplaceBeforeCreate ==
    \A id \in Ids : Cardinality(openSessions(id)) <= 1

\* what is registered for a requester: its watcher and all the watcher holds
NoRegistration == [registered |-> FALSE, session |-> 0, watcher |-> <<>>]
registrationOf(id) ==
    IF id \in DOMAIN fileWatchers
    THEN [registered |-> TRUE, session |-> fileWatchers[id],
          watcher |-> <<watchers[fileWatchers[id]]>>]
    ELSE NoRegistration

\* C4: a start, add or stop call for requester A leaves the registration of
\* every other requester B as it was (same watcher, same open or closed status,
\* same listeners, same targets); a stop(A) that returns closes A's watcher
\* and removes A's registration.
C4_OtherRequestersUntouched ==
    [][ (last'.op \in {"start", "add", "stop"} /\ last'.id # NoId) =>
            /\ \A B \in Ids \ {last'.id} : registrationOf(B)' = registrationOf(B)
            /\ (last'.op = "stop" /\ ~last'.threw) =>
                   /\ last'.id \in DOMAIN fileWatchers
                   /\ last'.id \notin DOMAIN fileWatchers'
                   /\ watchers'[fileWatchers[last'.id]].closed
      ]_vars

\* C4 witness: stop(A) has returned while another requester is registered with
\* an open watcher that still has its listeners
C4_Witness ==
    /\ last.op = "stop"
    /\ last.id \in Ids
    /\ ~last.threw
    /\ \E B \in Ids \ {last.id} :
           /\ B \in DOMAIN fileWatchers
           /\ ~watchers[fileWatchers[B]].closed
           /\ watchers[fileWatchers[B]].listeners = AttachedListeners

\* C5 (as claimed): after stop() without an identity the mapping is empty.
C5_StopAllEmptiesMapping ==
    (last.op = "stop" /\ last.id = NoId) => fileWatchers = NoWatchers

\* C6: add(id, t) leaves the mapping as it is; when id is registered, its
\* watcher is the same watcher, open or closed as before, with the same
\* listeners, and its targets are the previous ones and the home-resolved
\* paths of t, none of which starts with a placeholder; no other watcher
\* changes; when id is not registered nothing changes and nothing is thrown.
C6_AddExtendsInPlace ==
    [][ last'.op = "add" =>
            LET id == last'.id
                added == {resolveHomeDirectory(last'.target.items[i]) :
                              i \in 1..Len(last'.target.items)}
            IN  /\ fileWatchers' = fileWatchers
                /\ ~last'.threw
                /\ Len(watchers') = Len(watchers)
                /\ \A p \in added : ~startsWith(p, Tilde) /\ ~startsWith(p, HomeVar)
                /\ IF id \in DOMAIN fileWatchers
                   THEN \A w \in 1..Len(watchers) :
                            IF w = fileWatchers[id]
                            THEN /\ watchers'[w].targets = watchers[w].targets \cup added
                                 /\ watchers'[w].closed = watchers[w].closed
                                 /\ watchers'[w].listeners = watchers[w].listeners
                                 /\ watchers'[w].requesterId = watchers[w].requesterId
                            ELSE watchers'[w] = watchers[w]
                   ELSE watchers' = watchers
      ]_vars

\* C6 witness: add of an array of two paths, one of them with a placeholder,
\* has returned for a registered, open watcher, which now watches both
C6_Witness ==
    /\ last.op = "add"
    /\ last.session # 0
    /\ last.target.isArray
    /\ fileWatchers[last.id] = last.session
    /\ ~watchers[last.session].closed
    /\ watchers[last.session].targets = {<<"/", "w">>, <<"/", "h", "/", "d">>}

\* C7 (as claimed): every native callback of a watcher that is not closed sends
\* exactly one message, on the channel "files", holding the translation of
\* that callback.
C7_EveryCallbackDispatchedOnce ==
    (last.op = "native" /\ ~watchers[last.session].closed) =>
        last.sent = <<[name |-> "dispatch", channel |-> "files",
                       data |-> getFileSystemChangeToken(last.kind, last.path,
                                                         last.raw).event]>>

\* C8 (as claimed): an error reported for a watcher that is not closed is
\* dispatched as an event of kind "error", and the watcher stays registered
\* and open.
C8_ErrorIsDispatched ==
    (last.op = "native" /\ last.kind = "error" /\ ~watchers[last.session].closed) =>
        /\ Len(last.sent) = 1
        /\ last.sent[1].data.eventType = "error"
        /\ ~watchers[last.session].closed

\* C9 (as claimed): the translated event has details exactly when the raw
\* details are present and have an isDirectory property (a value or a method);
\* without details the diagnostic is logged.
C9_DetailsIffIsDirectory ==
    (last.op = "native" /\ last.sent # <<>>) =>
        /\ last.token.event.details.defined <=>
               (last.raw.defined /\ last.raw.isDirectory # "undefined")
        /\ ~last.token.event.details.defined => last.token.logged

\* C16 (as claimed): the translation leaves the raw details it was given as
\* they were: no field of them is added or overwritten.
C16_TranslationLeavesRawDetails ==
    (last.op = "native" /\ last.sent # <<>> /\ last.raw.defined) =>
        last.token.stats = last.raw

\* C17: stop(id) with a non-empty identity that has no registration throws and
\* changes neither the mapping nor any watcher; stop throws in no other case.
C17_StopOfUnregisteredThrows ==
    [][ last'.op = "stop" =>
            /\ (last'.id # NoId /\ last'.id \notin DOMAIN fileWatchers) =>
                   /\ last'.threw
                   /\ fileWatchers' = fileWatchers
                   /\ watchers' = watchers
            /\ last'.threw => (last'.id # NoId /\ last'.id \notin DOMAIN fileWatchers)
      ]_vars

\* C17 witness: stop(A) has thrown for an unregistered A while another
\* requester is registered with an open watcher
C17_Witness ==
    /\ last.op = "stop"
    /\ last.id \in Ids
    /\ last.id \notin DOMAIN fileWatchers
    /\ last.threw
    /\ \E B \in Ids \ {last.id} :
           /\ B \in DOMAIN fileWatchers
           /\ ~watchers[fileWatchers[B]].closed

\* C18 (as claimed): between calls, every watcher held in the mapping is open.
C18_RegisteredSessionsAreOpen ==
    pc = "idle" =>
        \A id \in DOMAIN fileWatchers : ~watchers[fileWatchers[id]].closed

(***************************************************************************)
(* Properties of the directory listing (checked under ListSpec)            *)
(***************************************************************************)

\* the indices of the names whose snapshot succeeded, in enumeration order
keptIndices ==
    SelectSeq([i \in 1..Len(listNames) |-> i],
              LAMBDA i : listEntries[i].at = "fulfilled")

\* C10: a listing of N names of which M failed both stat variants resolves
\* with N - M entries: those of the names whose snapshot succeeded, in
\* enumeration order, each with path = join(resolved directory, name) and
\* isDirectory, isFile and isSymbolicLink as booleans; only a failed
\* enumeration rejects the listing.
C10_ListingKeepsSucceededInOrder ==
    /\ listPc = "resolved" =>
           /\ Len(listResult) =
                  Len(listNames)
                  - Cardinality({i \in 1..Len(listNames) : listEntries[i].at = "caught"})
           /\ Len(listResult) = Len(keptIndices)
           /\ \A k \in 1..Len(listResult) :
                  /\ listResult[k].defined
                  /\ listResult[k].path = pathJoin(listDir, listNames[keptIndices[k]])
                  /\ listResult[k].isDirectory \in {"true", "false"}
                  /\ listResult[k].isFile \in {"true", "false"}
                  /\ listResult[k].isSymbolicLink \in {"true", "false"}
                  /\ listResult[k].isDirectory =
                         listEntries[keptIndices[k]].value.isDirectory
    /\ listPc = "rejected" => listEntries = <<>>

\* C10 witness: a listing of three names has resolved with the first and the
\* third, the second having failed both stat variants
C10_Witness ==
    /\ listPc = "resolved"
    /\ Len(listNames) = 3
    /\ listEntries[1].at = "fulfilled"
    /\ listEntries[2].at = "caught"
    /\ listEntries[3].at = "fulfilled"
    /\ Len(listResult) = 2

\* C11: when the enumeration of the directory fails, the listing is rejected,
\* it never resolves (not even with an empty list), and no snapshot of any
\* entry is attempted.
C11_FailedEnumerationRejects ==
    /\ listReaddir = "failed" =>
           /\ listPc = "rejected"
           /\ listResult = <<>>
           /\ listNames = <<>>
           /\ listEntries = <<>>
    /\ listPc = "rejected" => listReaddir = "failed"

\* C11 witness: the enumeration of the resolved directory /h/d has failed
C11_Witness ==
    /\ listReaddir = "failed"
    /\ listPc = "rejected"
    /\ listDir = <<"/", "h", "/", "d">>

\* the number of times a message is in a sequence of messages
countOf(msgs, msg) == Cardinality({k \in 1..Len(msgs) : msgs[k] = msg})

\* C12: for every name, lstat is issued first and stat only after lstat has
\* failed; the snapshot fails exactly when both have failed; otherwise its
\* value is the normalized result of the first variant that succeeded.
C12_LstatThenStat ==
    \A i \in 1..Len(listEntries) :
        LET e == listEntries[i]
            lstatFailed == countOf(e.warnings, "lstat failed") = 1
        IN  /\ e.calls \in {<<"lstat">>, <<"lstat", "stat">>}
            /\ (e.calls = <<"lstat", "stat">>) <=> lstatFailed
            /\ e.at = "lstat" => e.calls = <<"lstat">>
            /\ e.at = "stat" => e.calls = <<"lstat", "stat">>
            /\ e.at = "caught" => (e.calls = <<"lstat", "stat">> /\ ~e.value.defined)
            /\ e.at = "fulfilled" =>
                   /\ \E st \in (IF lstatFailed THEN StatResults ELSE LstatResults) :
                          e.value = listedEntry(listDir, listNames[i], st)
                   /\ e.value.isDirectory \in {"true", "false"}
                   /\ e.value.isFile \in {"true", "false"}
                   /\ e.value.isSymbolicLink \in {"true", "false"}

\* C12 witness: one snapshot has succeeded by lstat, one by stat after lstat
\* failed, and one has failed after both failed
C12_Witness ==
    /\ Len(listEntries) = 3
    /\ listEntries[1].at = "fulfilled" /\ listEntries[1].calls = <<"lstat">>
    /\ listEntries[2].at = "fulfilled" /\ listEntries[2].calls = <<"lstat", "stat">>
    /\ listEntries[2].value.isFile = "true"
    /\ listEntries[3].at = "caught"

\* the warnings logged for all the names of the listing
RECURSIVE allWarnings(_)
allWarnings(entries) ==
    IF entries = <<>> THEN <<>>
    ELSE Head(entries).warnings \o allWarnings(Tail(entries))

\* the names dropped from the listing
droppedNames == {i \in 1..Len(listEntries) : listEntries[i].at = "caught"}

\* C14 (as claimed): a resolved listing has logged as many warnings as it
\* dropped names, none of them for a name it returned.
C14_OneWarningPerDroppedEntry ==
    listPc = "resolved" =>
        /\ Len(allWarnings(listEntries)) = Cardinality(droppedNames)
        /\ \A i \in 1..Len(listEntries) :
               listEntries[i].at = "fulfilled" => listEntries[i].warnings = <<>>

\* C14 (amended): a resolved listing has logged "getStats failed" once for
\* every name it dropped and for no other, and "lstat failed" once for every
\* name whose lstat failed, whether the name was dropped or returned, and
\* nothing else.
C14_WarningsPerFailedCall ==
    listPc = "resolved" =>
        /\ countOf(allWarnings(listEntries), "getStats failed") = Cardinality(droppedNames)
        /\ \A i \in 1..Len(listEntries) :
               LET e == listEntries[i]
               IN  /\ countOf(e.warnings, "getStats failed") =
                          (IF e.at = "caught" THEN 1 ELSE 0)
                   /\ countOf(e.warnings, "lstat failed") =
                          (IF e.calls = <<"lstat", "stat">> THEN 1 ELSE 0)
                   /\ Len(e.warnings) =
                          countOf(e.warnings, "getStats failed")
                          + countOf(e.warnings, "lstat failed")

\* C14 witness: a resolved listing returned a name whose lstat had failed and
\* dropped another
C14_Witness ==
    /\ listPc = "resolved"
    /\ Len(listEntries) >= 2
    /\ listEntries[1].at = "fulfilled"
    /\ listEntries[1].warnings = <<"lstat failed">>
    /\ listEntries[2].at = "caught"
    /\ listEntries[2].warnings = <<"lstat failed", "getStats failed">>

(***************************************************************************)
(* Properties of the home directory forms (checked under PathSpec)         *)
(***************************************************************************)

\* C13 (as claimed): a path that begins with "~" or with "%HOME%" comes back
\* from resolveHomeDirectory and getWithHomeDirectoryShortName as it was.
C13_RoundTripOfPlaceholderPaths ==
    (homeShort # NoStr /\ (startsWith(homeIn, Tilde) \/ startsWith(homeIn, HomeVar))) =>
        homeShort = homeIn

\* a path that is "~" or begins with "~/" and is in normalized form
normalizedTildePath(str) ==
    /\ startsWith(str, Tilde)
    /\ Len(str) = 1 \/ str[2] = "/"
    /\ pathNormalize(str) = str

\* C13 (amended): a path that is "~" or begins with "~/" and is in normalized
\* form comes back as it was; "%HOME%" followed by what would make such a path
\* after "~" comes back with "~" where "%HOME%" was.
C13_RoundTripOfNormalizedTildePaths ==
    homeShort # NoStr =>
        /\ normalizedTildePath(homeIn) => homeShort = homeIn
        /\ (startsWith(homeIn, HomeVar) /\
                normalizedTildePath(Tilde \o substr(homeIn, Len(HomeVar)))) =>
               homeShort = Tilde \o substr(homeIn, Len(HomeVar))

\* C13 witness: "~/d/" has been resolved to "/h/d/" and shortened again
C13_Witness ==
    /\ homeIn = <<"~", "/", "d", "/">>
    /\ homeResolved = <<"/", "h", "/", "d", "/">>
    /\ homeShort # NoStr

(***************************************************************************)
(* Properties of the file viewer's view requests (checked under ViewSpec)  *)
(***************************************************************************)

\* the positions of viewLog where request r dispatched its listing result
resultsOf(r) ==
    {i \in 1..Len(viewLog) : /\ viewLog[i].req = r
                             /\ viewLog[i].type = "SET_VIEWED_PATH"
                             /\ viewLog[i].result}

\* the positions of viewLog where request r issued its watch start
watchesOf(r) ==
    {i \in 1..Len(viewLog) : viewLog[i].req = r /\ viewLog[i].type = "startWatching"}

\* C15: the listing and the timer of a view request are under way together
\* from its issue; the request dispatches its listing result at most once and
\* only when the listing has succeeded and the timer has elapsed; it issues its
\* watch start for 'file-viewer' at most once and only after that dispatch; a
\* request whose listing failed dispatches no result and starts no watch.
C15_DispatchAfterBothThenWatch ==
    \A r \in 1..Len(viewReqs) :
        /\ viewReqs[r].first = "none" =>
               (viewReqs[r].listing = "pending" /\ viewReqs[r].timer = "running")
        /\ Cardinality(resultsOf(r)) <= 1
        /\ Cardinality(watchesOf(r)) <= 1
        /\ resultsOf(r) # {} =>
               (viewReqs[r].listing = "ok" /\ viewReqs[r].timer = "elapsed")
        /\ \A w \in watchesOf(r) :
               /\ \E d \in resultsOf(r) : d < w
               /\ requesterId \in DOMAIN fileWatchers
        /\ viewReqs[r].listing = "failed" => (resultsOf(r) = {} /\ watchesOf(r) = {})

\* C15 witness: one request whose listing outlasted its timer has dispatched
\* its result and started its watch, and another whose listing failed has
\* written its error
C15_Witness ==
    \E r, q \in 1..Len(viewReqs) :
        /\ viewReqs[r].first = "timer"
        /\ viewReqs[r].at = "watching"
        /\ resultsOf(r) # {} /\ watchesOf(r) # {}
        /\ viewReqs[q].at = "failed"

\* C19 (as claimed): when two view requests have both dispatched their result
\* and started their watch, the last result dispatched and the targets of the
\* watcher registered for 'file-viewer' are those of the second request.
C19_LastRequestWins ==
    (/\ Len(viewReqs) = 2
     /\ viewReqs[1].at = "watching"
     /\ viewReqs[2].at = "watching") =>
        LET B == viewReqs[2].filePath
            results == resultsOf(1) \cup resultsOf(2)
            lastResult == viewLog[CHOOSE i \in results : \A j \in results : j <= i]
        IN  /\ lastResult.targetPath = B
            /\ watchers[fileWatchers[requesterId]].targets =
                   {resolveHomeDirectory(pathJoin(B, <<"*">>))}
====
